---------------------------- MODULE Spec2Model ----------------------------
(***************************************************************************)
(* A model of atoms_core/entities/atom.py: the Atom entity, its manifest   *)
(* persistence (to_dict/save, from_dict/load), its three creation          *)
(* workflows (new, new_container, new_system_shell) and its lifecycle      *)
(* operations, over an abstract file system, container runtime and main    *)
(* context.                                                                *)
(*                                                                         *)
(* Python values are represented as follows.                               *)
(*   str | None   a TLA+ string, None being the string "None"              *)
(*   name         a sequence of one-character strings, so that str.strip() *)
(*                is computed and not assumed                              *)
(*   bool         BOOLEAN                                                  *)
(*   list         a sequence; an extra mount is the JSON array             *)
(*                <<hostPath, guestPath>>                                  *)
(*   dict (JSON)  a function whose DOMAIN is the set of keys present       *)
(***************************************************************************)
EXTENDS Naturals, Sequences, FiniteSets, TLC

VARIABLES
    atoms,      \* the Atom objects the caller holds: handle -> object fields
    disk,       \* manifest files: atom path -> decoded content of atom.json
    dirs,       \* the atom directories that exist (chroot trees)
    savedFrom,  \* atom path -> the fields of the object whose save() wrote the file
    workflows,  \* the running Atom.new calls: handle -> position and locals
    containers, \* the containers the container runtime holds: id -> name, image
    last        \* the last completed call: its arguments and its outcome

vars == <<atoms, disk, dirs, savedFrom, workflows, containers, last>>

---------------------------------------------------------------------------
(* Bounds and input domains *)

MaxNameLen == 3          \* longest name a caller supplies
MaxExtraMounts == 2      \* longest bindExtraMounts list in a manifest

None == "None"

NameChars == {" ", "a"}

RECURSIVE SeqsUpTo(_, _)
SeqsUpTo(S, n) ==
    IF n = 0 THEN {<<>>}
    ELSE LET shorter == SeqsUpTo(S, n - 1)
         IN  shorter \cup {Append(s, x) : s \in shorter, x \in S}

AllNames == SeqsUpTo(NameChars, MaxNameLen)

Mounts == {<<"/h1", "/g1">>, <<"/h2", "/g2">>}
AllExtraMounts == SeqsUpTo(Mounts, MaxExtraMounts)

Handles == {"h1"}
RelativePaths == {"u1.atom"}
Dates == {"t1", "t2"}
DistributionIds == {"alpine", "ubuntu"}
ContainerIds == {"c1"}

---------------------------------------------------------------------------
(* str.strip() *)

IsSpace(c) == c = " "

RECURSIVE lstrip(_)
lstrip(s) ==
    IF s = <<>> THEN s
    ELSE IF IsSpace(Head(s)) THEN lstrip(Tail(s)) ELSE s

RECURSIVE rstrip(_)
rstrip(s) ==
    IF s = <<>> THEN s
    ELSE IF IsSpace(s[Len(s)]) THEN rstrip(SubSeq(s, 1, Len(s) - 1)) ELSE s

strip(s) == rstrip(lstrip(s))

(* Python truthiness of a str | None *)
Truthy(s) == s # None /\ s # ""

---------------------------------------------------------------------------
(* Atom.__init__ (lines 48-85).  `now` is the value datetime.now() returns  *)
(* if the constructor reads the clock.  bind_extra_mounts None and [] both  *)
(* give [] (line 81): a caller that omits it passes <<>>.                   *)

(* the constructor reading the clock for every update date not given *)
Atom_init_update_now(name, distribution_id, relative_path, creation_date, update_date, container_id, container_image, system_shell, bind_themes, bind_icons, bind_fonts, bind_extra_mounts, now) ==
    [ name              |-> strip(name),
      distribution_id   |-> distribution_id,
      relative_path     |-> relative_path,
      creation_date     |-> creation_date,
      update_date       |-> IF update_date = None THEN now ELSE update_date,
      container_id      |-> container_id,
      container_image   |-> container_image,
      system_shell      |-> system_shell,
      bind_themes       |-> bind_themes,
      bind_icons        |-> bind_icons,
      bind_fonts        |-> bind_fonts,
      bind_extra_mounts |-> IF bind_extra_mounts = <<>> THEN <<>> ELSE bind_extra_mounts,
      distrobox_wrapper |-> Truthy(container_id) ]

(* the constructor without line 70's strip() *)
Atom_init_unstripped(name, distribution_id, relative_path, creation_date, update_date, container_id, container_image, system_shell, bind_themes, bind_icons, bind_fonts, bind_extra_mounts, now) ==
    [ name              |-> name,
      distribution_id   |-> distribution_id,
      relative_path     |-> relative_path,
      creation_date     |-> creation_date,
      update_date       |-> IF update_date = None /\ (Truthy(container_id) \/ system_shell)
                              THEN now
                            ELSE IF update_date = None THEN creation_date
                            ELSE update_date,
      container_id      |-> container_id,
      container_image   |-> container_image,
      system_shell      |-> system_shell,
      bind_themes       |-> bind_themes,
      bind_icons        |-> bind_icons,
      bind_fonts        |-> bind_fonts,
      bind_extra_mounts |-> IF bind_extra_mounts = <<>> THEN <<>> ELSE bind_extra_mounts,
      distrobox_wrapper |-> Truthy(container_id) ]

Atom_init(name, distribution_id, relative_path, creation_date, update_date, container_id, container_image, system_shell, bind_themes, bind_icons, bind_fonts, bind_extra_mounts, now) ==
    [ name              |-> strip(name),
      distribution_id   |-> distribution_id,
      relative_path     |-> relative_path,
      creation_date     |-> creation_date,
      update_date       |-> IF update_date = None /\ (Truthy(container_id) \/ system_shell)
                              THEN now
                            ELSE IF update_date = None THEN creation_date
                            ELSE update_date,
      container_id      |-> container_id,
      container_image   |-> container_image,
      system_shell      |-> system_shell,
      bind_themes       |-> bind_themes,
      bind_icons        |-> bind_icons,
      bind_fonts        |-> bind_fonts,
      bind_extra_mounts |-> IF bind_extra_mounts = <<>> THEN <<>> ELSE bind_extra_mounts,
      distrobox_wrapper |-> Truthy(container_id) ]

(* properties, lines 407-476 *)
is_distrobox_container(a) == a.container_id # None

is_system_shell(a) == a.system_shell

(* AtomsPathsUtils.get_atom_path: the atom's directory for a relative path *)
get_atom_path(relative_path) == relative_path

path(a) ==
    IF is_distrobox_container(a) \/ a.system_shell THEN ""
    ELSE get_atom_path(a.relative_path)

ThemesMount == <<"/usr/share/themes", "/usr/share/themes">>
IconsMount == <<"/usr/share/icons", "/usr/share/icons">>
FontsMount == <<"/usr/share/fonts", "/usr/share/fonts">>

(* bind_mounts with the extra mounts put first *)
bind_mounts_extras_first(a) ==
    LET m0 == a.bind_extra_mounts
        m1 == IF a.bind_themes THEN Append(m0, ThemesMount) ELSE m0
        m2 == IF a.bind_icons THEN Append(m1, IconsMount) ELSE m1
    IN  IF a.bind_fonts THEN Append(m2, FontsMount) ELSE m2

bind_mounts(a) ==
    LET m1 == IF a.bind_themes THEN <<ThemesMount>> ELSE <<>>
        m2 == IF a.bind_icons THEN Append(m1, IconsMount) ELSE m1
        m3 == IF a.bind_fonts THEN Append(m2, FontsMount) ELSE m2
    IN  IF a.bind_extra_mounts # <<>> THEN m3 \o a.bind_extra_mounts ELSE m3

(* generate_command testing the pass-through flag before the container id *)
generate_command_branch_shell_first(a) ==
    IF a.system_shell THEN "system_shell"
    ELSE IF a.container_id # None THEN "distrobox"
    ELSE "proot"

(* the branch generate_command takes, lines 316-323 *)
generate_command_branch(a) ==
    IF is_distrobox_container(a) THEN "distrobox"
    ELSE IF a.system_shell THEN "system_shell"
    ELSE "proot"

---------------------------------------------------------------------------
(* Manifest records *)

RequiredKeys == {"name", "distributionId", "creationDate", "updateDate", "relativePath"}
OptionalKeys == {"bindThemes", "bindIcons", "bindFonts", "bindExtraMounts"}
ManifestKeys == RequiredKeys \cup OptionalKeys

get_extra_default_options ==
    [ bindThemes |-> FALSE, bindIcons |-> FALSE, bindFonts |-> FALSE,
      bindExtraMounts |-> <<>> ]

to_dict(a) ==
    [ name            |-> a.name,
      distributionId  |-> a.distribution_id,
      relativePath    |-> a.relative_path,
      creationDate    |-> a.creation_date,
      updateDate      |-> a.update_date,
      bindThemes      |-> a.bind_themes,
      bindIcons       |-> a.bind_icons,
      bindFonts       |-> a.bind_fonts,
      bindExtraMounts |-> a.bind_extra_mounts ]

(* data.get(key) is None: the key is missing, or holds JSON null.  A stored *)
(* name is a string whenever it is present.                                 *)
get_is_none(data, key) ==
    \/ key \notin DOMAIN data
    \/ key # "name" /\ data[key] = None

(* the check of lines 98-105 without creationDate *)
from_dict_raises_no_creation_date(data) ==
    \E key \in RequiredKeys \ {"creationDate"} : get_is_none(data, key)

from_dict_raises(data) == \E key \in RequiredKeys : get_is_none(data, key)

(* the defaults overwriting what the manifest holds *)
with_defaults_overwriting(data) ==
    [ key \in DOMAIN data \cup DOMAIN get_extra_default_options |->
        IF key \in DOMAIN get_extra_default_options
          THEN get_extra_default_options[key] ELSE data[key] ]

(* lines 107-109: data after the defaults are filled in *)
with_defaults(data) ==
    [ key \in DOMAIN data \cup DOMAIN get_extra_default_options |->
        IF key \in DOMAIN data THEN data[key] ELSE get_extra_default_options[key] ]

(* the constructor call of lines 111-122 with the relative path passed as   *)
(* the container id too                                                     *)
from_dict_with_container_id(data) ==
    LET d == with_defaults(data)
    IN  Atom_init(d["name"], d["distributionId"], d["relativePath"],
                  d["creationDate"], d["updateDate"], d["relativePath"], None, FALSE,
                  d["bindThemes"], d["bindIcons"], d["bindFonts"],
                  d["bindExtraMounts"], None)

(* lines 111-122, for data that passed the check of lines 98-105 *)
from_dict(data) ==
    LET d == with_defaults(data)
    IN  Atom_init(d["name"], d["distributionId"], d["relativePath"],
                  d["creationDate"], d["updateDate"], None, None, FALSE,
                  d["bindThemes"], d["bindIcons"], d["bindFonts"],
                  d["bindExtraMounts"], None)

---------------------------------------------------------------------------
(* Finite maps *)

EmptyMap == [x \in {} |-> TRUE]

Put(f, k, v) == [x \in DOMAIN f \cup {k} |-> IF x = k THEN v ELSE f[x]]

Remove(f, k) == [x \in DOMAIN f \ {k} |-> f[x]]

---------------------------------------------------------------------------
(* What a call leaves behind.  trace lists, in order, the callbacks the     *)
(* call posted with client_bridge.exec_on_main and the effects it had.      *)

Callbacks == {"download_fn", "config_fn", "unpack_fn", "finalizing_fn", "distrobox_fn", "error_fn"}

Posted(fn, status) == [fn |-> fn, status |-> status, message |-> <<>>]

PostedError(message) == [fn |-> "error_fn", status |-> 0, message |-> message]

Effect(what) == [fn |-> what, status |-> 0, message |-> <<>>]

(* exec_on_main(fn, status) under `if fn:` *)
post_if(cbs, fn, status) == IF fn \in cbs THEN <<Posted(fn, status)>> ELSE <<>>

post_error_if(cbs, message) == IF "error_fn" \in cbs THEN <<PostedError(message)>> ELSE <<>>

Call(op, h) ==
    [ op |-> op, h |-> h, err |-> "", ret |-> "", path |-> "", name |-> <<>>,
      image |-> "", id |-> "", shell |-> FALSE, outcome |-> "", cbs |-> {},
      trace |-> <<>>, value |-> <<>>,
      command |-> <<>>, environment |-> <<>>, track_exit |-> FALSE,
      env_shell |-> "", script |-> "",
      out_command |-> <<>>, out_environment |-> <<>>, working_directory |-> "" ]

(* the messages of lines 172-186 and 266, as words and punctuation marks *)
MsgHashMissmatch == <<"Hash", "missmatch", ".">>
MsgFailToDownload == <<"Fail", "to", "download", "image", ",", "it", "might", "be", "a", "temporary", "problem", ".">>
MsgUnreachableRemote == <<"Unreachable", "remote", ",", "it", "might", "be", "a", "temporary", "problem", ".">>
MsgFailToCreateContainer == <<"Fail", "to", "create", "container", ",", "it", "might", "be", "a", "temporary", "problem", "or", "a", "wrong", "image", "was", "requested", ".">>
(* str(e) of an AtomsMisconfiguredDistribution: the resolver's own text *)
MisconfiguredTexts == {<<"misconfigured", "distribution">>}

Contains(message, phrase) ==
    \E i \in 1..Len(message) :
        /\ i + Len(phrase) - 1 <= Len(message)
        /\ SubSeq(message, i, i + Len(phrase) - 1) = phrase

---------------------------------------------------------------------------
(* Persistence *)

(* Atom.save, lines 306-313.  AtomsCannotSavePodmanContainers is neither    *)
(* imported nor defined in atom.py, so line 308 raises NameError.           *)
save_error(a, dirs_now) ==
    IF is_distrobox_container(a) \/ a.system_shell THEN "NameError"
    ELSE IF a.relative_path = None THEN "TypeError"
    ELSE IF path(a) \notin dirs_now THEN "FileNotFoundError"
    ELSE ""

(* the manifest store after a.save() *)
save_disk(a, disk_now, dirs_now) ==
    IF save_error(a, dirs_now) = "" THEN Put(disk_now, path(a), to_dict(a)) ELSE disk_now

save_savedFrom(a, saved_now, dirs_now) ==
    IF save_error(a, dirs_now) = "" THEN Put(saved_now, path(a), a) ELSE saved_now

save(h) ==
    /\ h \in DOMAIN atoms
    /\ disk' = save_disk(atoms[h], disk, dirs)
    /\ savedFrom' = save_savedFrom(atoms[h], savedFrom, dirs)
    /\ last' = [Call("save", h) EXCEPT !.err = save_error(atoms[h], dirs)]
    /\ UNCHANGED <<atoms, dirs, workflows, containers>>

(* Atom.load, lines 124-133, with from_dict, lines 96-122 *)
load_error(relative_path, disk_now) ==
    IF get_atom_path(relative_path) \notin DOMAIN disk_now THEN "AtomsConfigFileNotFound"
    ELSE IF from_dict_raises(disk_now[get_atom_path(relative_path)]) THEN "AtomsWrongAtomData"
    ELSE IF ~(RequiredKeys \subseteq DOMAIN disk_now[get_atom_path(relative_path)]) THEN "KeyError"
    ELSE ""

load(h, relative_path) ==
    /\ h \notin DOMAIN atoms \cup DOMAIN workflows
    /\ atoms' = IF load_error(relative_path, disk) = ""
                  THEN Put(atoms, h, from_dict(disk[get_atom_path(relative_path)]))
                  ELSE atoms
    /\ last' = [Call("load", h) EXCEPT !.err = load_error(relative_path, disk),
                                       !.path = relative_path]
    /\ UNCHANGED <<disk, dirs, savedFrom, workflows, containers>>

---------------------------------------------------------------------------
(* Lifecycle operations *)

(* Atom.rename, lines 386-390.  AtomsCannotRenamePodmanContainers is no     *)
(* name of atom.py either: line 388 raises NameError.                       *)
rename_refused(a) == is_distrobox_container(a) \/ a.system_shell

rename_atom(a, new_name) == IF rename_refused(a) THEN a ELSE [a EXCEPT !.name = new_name]

rename(h, new_name) ==
    /\ h \in DOMAIN atoms
    /\ atoms' = [atoms EXCEPT ![h] = rename_atom(@, new_name)]
    /\ disk' = IF rename_refused(atoms[h]) THEN disk
               ELSE save_disk(atoms'[h], disk, dirs)
    /\ savedFrom' = IF rename_refused(atoms[h]) THEN savedFrom
                    ELSE save_savedFrom(atoms'[h], savedFrom, dirs)
    /\ last' = [Call("rename", h) EXCEPT
                   !.err = IF rename_refused(atoms[h]) THEN "NameError"
                           ELSE save_error(atoms'[h], dirs),
                   !.name = new_name]
    /\ UNCHANGED <<dirs, workflows, containers>>

(* set_bind_themes, set_bind_icons, set_bind_fonts, lines 395-405: the      *)
(* field is assigned, then save() is called                                 *)
set_bind_field(a, field, status) ==
    CASE field = "bind_themes" -> [a EXCEPT !.bind_themes = status]
      [] field = "bind_icons"  -> [a EXCEPT !.bind_icons = status]
      [] field = "bind_fonts"  -> [a EXCEPT !.bind_fonts = status]

set_bind(h, field, status) ==
    /\ h \in DOMAIN atoms
    /\ atoms' = [atoms EXCEPT ![h] = set_bind_field(@, field, status)]
    /\ disk' = save_disk(atoms'[h], disk, dirs)
    /\ savedFrom' = save_savedFrom(atoms'[h], savedFrom, dirs)
    /\ last' = [Call("set_" \o field, h) EXCEPT !.err = save_error(atoms'[h], dirs),
                                               !.value = <<status>>]
    /\ UNCHANGED <<dirs, workflows, containers>>

set_bind_themes(h, status) == set_bind(h, "bind_themes", status)

set_bind_icons(h, status) == set_bind(h, "bind_icons", status)

set_bind_fonts(h, status) == set_bind(h, "bind_fonts", status)

(* the bind_mounts property read by a caller, lines 465-476 *)
get_bind_mounts(h) ==
    /\ h \in DOMAIN atoms
    /\ last' = [Call("bind_mounts", h) EXCEPT !.value = bind_mounts(atoms[h])]
    /\ UNCHANGED <<atoms, disk, dirs, savedFrom, workflows, containers>>

(* self.__distrobox_wrapper is set only under `if container_id:` (lines     *)
(* 84-85); reading it otherwise raises AttributeError.                      *)
wrapper_error(a) == IF a.distrobox_wrapper THEN "" ELSE "AttributeError"

(* fs_path and root_path, lines 413-428 *)
fs_path(a) ==
    IF is_distrobox_container(a) \/ a.system_shell THEN ""
    ELSE get_atom_path(a.relative_path) \o "/chroot"

root_path(a) ==
    IF is_distrobox_container(a) \/ a.system_shell THEN ""
    ELSE fs_path(a) \o "/root"

(* ProotWrapper.get_proot_command_for_chroot: proot on the chroot with one  *)
(* bind option for each mount, then the command                             *)
RECURSIVE BindOptions(_)
BindOptions(mounts) ==
    IF mounts = <<>> THEN <<>>
    ELSE <<"-b", Head(mounts)[1], Head(mounts)[2]>> \o BindOptions(Tail(mounts))

get_proot_command_for_chroot(chroot, command, mounts) ==
    <<"proot", "-r", chroot>> \o BindOptions(mounts) \o command

(* DistroboxWrapper.get_distrobox_command_for_container *)
get_distrobox_command_for_container(container_id, command) ==
    <<"distrobox", "enter", container_id, "--">> \o command

(* the result of a call: the exception raised, or the returned triple *)
Triple(command, environment, working_directory) ==
    [ err |-> "", command |-> command, environment |-> environment,
      working_directory |-> working_directory ]

Raises(err) == [ err |-> err, command |-> <<>>, environment |-> <<>>, working_directory |-> "" ]

(* __generate_proot_command, lines 330-337 *)
generate_proot_command(a, command, environment) ==
    IF a.relative_path = None THEN Raises("TypeError")
    ELSE Triple(get_proot_command_for_chroot(fs_path(a), command, bind_mounts(a)),
                environment, root_path(a))

(* __generate_distrobox_command, lines 339-345 *)
generate_distrobox_command(a, command, environment) ==
    IF wrapper_error(a) # "" THEN Raises(wrapper_error(a))
    ELSE Triple(get_distrobox_command_for_container(a.container_id, command),
                environment, root_path(a))

(* the pass-through branch handing the caller's command and environment on *)
generate_system_shell_command_passing(command, environment, shell) ==
    IF shell = None THEN Raises("KeyError")
    ELSE Triple(<<shell>> \o command, environment, "/")

(* __generate_system_shell_command, lines 347-349, called by line 320      *)
(* without the caller's command and environment; `shell` is                *)
(* os.environ["SHELL"], None when the variable is not set                  *)
generate_system_shell_command(command, environment, shell) ==
    IF shell = None THEN Raises("KeyError")
    ELSE Triple(<<shell>>, <<>>, "/")

(* Atom.generate_command, lines 315-328.  An environment of None and one   *)
(* of [] both give [] (lines 331 and 340): a caller that omits it passes   *)
(* <<>>.  `script` is the name of the temporary file                       *)
(* __get_launcher_script writes.                                           *)
generate_command_result(a, command, environment, track_exit, shell, script) ==
    LET r == CASE generate_command_branch(a) = "distrobox" ->
                      generate_distrobox_command(a, command, environment)
               [] generate_command_branch(a) = "system_shell" ->
                      generate_system_shell_command(command, environment, shell)
               [] generate_command_branch(a) = "proot" ->
                      generate_proot_command(a, command, environment)
    IN  IF r.err = "" /\ track_exit
          THEN [r EXCEPT !.command = <<"sh", script>> \o @]
          ELSE r

generate_command(h, command, environment, track_exit, shell, script) ==
    /\ h \in DOMAIN atoms
    /\ LET r == generate_command_result(atoms[h], command, environment, track_exit, shell, script)
       IN  last' = [Call("generate_command", h) EXCEPT
                       !.err = r.err, !.command = command, !.environment = environment,
                       !.track_exit = track_exit, !.env_shell = shell, !.script = script,
                       !.out_command = r.command, !.out_environment = r.environment,
                       !.working_directory = r.working_directory]
    /\ UNCHANGED <<atoms, disk, dirs, savedFrom, workflows, containers>>

(* the caller lets go of the object *)
drop(h) ==
    /\ h \in DOMAIN atoms
    /\ atoms' = Remove(atoms, h)
    /\ last' = Call("drop", h)
    /\ UNCHANGED <<disk, dirs, savedFrom, workflows, containers>>

(* DistroboxWrapper: the container runtime removes or stops a container *)
destroy_container(cs, container_id) == Remove(cs, container_id)

stop_container(cs, container_id) ==
    IF container_id \in DOMAIN cs THEN [cs EXCEPT ![container_id].stopped = TRUE] ELSE cs

(* a request to the container runtime, as a trace entry *)
Request(what, container_id) == [fn |-> what, status |-> 0, message |-> <<container_id>>]

(* FileUtils.native_rm: the directory tree is removed, atom.json with it *)
native_rm(files, p) == Remove(files, p)

(* the test of lines 364 and 378 *)
teardown_by_runtime(a) == is_distrobox_container(a) \/ a.system_shell

(* Atom.destroy, lines 363-375 *)
destroy_error(a) ==
    IF teardown_by_runtime(a) THEN wrapper_error(a)
    ELSE IF a.relative_path = None THEN "TypeError"
    ELSE ""

destroy(h) ==
    /\ h \in DOMAIN atoms
    /\ LET a == atoms[h]
           err == destroy_error(a)
           remove == err = "" /\ teardown_by_runtime(a)
           rm == err = "" /\ ~teardown_by_runtime(a)
       IN  /\ containers' = IF remove THEN destroy_container(containers, a.container_id)
                             ELSE containers
           /\ dirs' = IF rm THEN dirs \ {path(a)} ELSE dirs
           /\ disk' = IF rm THEN native_rm(disk, path(a)) ELSE disk
           /\ savedFrom' = IF rm THEN native_rm(savedFrom, path(a)) ELSE savedFrom
           /\ last' = [Call("destroy", h) EXCEPT
                          !.err = err,
                          !.trace = IF remove THEN <<Request("destroy_container", a.container_id)>>
                                    ELSE IF rm THEN <<Effect("native_rm")>>
                                    ELSE <<>>]
    /\ UNCHANGED <<atoms, workflows>>

(* Atom.kill, lines 377-384.  ProcUtils is no name of atom.py: line 382     *)
(* raises NameError.                                                        *)
kill_error(a) == IF teardown_by_runtime(a) THEN wrapper_error(a) ELSE "NameError"

kill(h) ==
    /\ h \in DOMAIN atoms
    /\ LET a == atoms[h]
           stop == kill_error(a) = ""
       IN  /\ containers' = IF stop THEN stop_container(containers, a.container_id)
                             ELSE containers
           /\ last' = [Call("kill", h) EXCEPT
                          !.err = kill_error(a),
                          !.trace = IF stop THEN <<Request("stop_container", a.container_id)>>
                                    ELSE <<>>]
    /\ UNCHANGED <<atoms, disk, dirs, savedFrom, workflows>>

(* Atom.stop_distrobox_container, lines 392-393 *)
stop_distrobox_container(h) ==
    /\ h \in DOMAIN atoms
    /\ LET a == atoms[h]
           stop == wrapper_error(a) = ""
       IN  /\ containers' = IF stop THEN stop_container(containers, a.container_id)
                             ELSE containers
           /\ last' = [Call("stop_distrobox_container", h) EXCEPT
                          !.err = wrapper_error(a),
                          !.trace = IF stop THEN <<Request("stop_container", a.container_id)>>
                                    ELSE <<>>]
    /\ UNCHANGED <<atoms, disk, dirs, savedFrom, workflows>>

---------------------------------------------------------------------------
(* Creation workflows.  A call binds its result to a handle the caller does *)
(* not use yet.                                                             *)

Free(h) == h \notin DOMAIN atoms \cup DOMAIN workflows

ImageFailures == {"AtomsHashMissmatchError", "AtomsFailToDownloadImage", "AtomsUnreachableRemote", "AtomsMisconfiguredDistribution"}

(* the except clauses with the message of the first one pasted into the third *)
image_error_message_pasted(outcome, text) ==
    CASE outcome = "AtomsHashMissmatchError"        -> MsgHashMissmatch
      [] outcome = "AtomsFailToDownloadImage"       -> MsgFailToDownload
      [] outcome = "AtomsUnreachableRemote"         -> MsgHashMissmatch
      [] outcome = "AtomsMisconfiguredDistribution" -> text

(* the message of each except clause of lines 170-187 *)
image_error_message(outcome, text) ==
    CASE outcome = "AtomsHashMissmatchError"        -> MsgHashMissmatch
      [] outcome = "AtomsFailToDownloadImage"       -> MsgFailToDownload
      [] outcome = "AtomsUnreachableRemote"         -> MsgUnreachableRemote
      [] outcome = "AtomsMisconfiguredDistribution" -> text

(* Atom.new, lines 166-187: AtomsImageUtils.get_image returns or raises *)
new_get_image(h, name, distribution_id, cbs, outcome, text) ==
    /\ Free(h)
    /\ IF outcome = "ok"
         THEN /\ workflows' = Put(workflows, h,
                     [ pc |-> "config", name |-> name, distribution_id |-> distribution_id,
                       cbs |-> cbs, atom |-> <<>>, trace |-> <<>> ])
              /\ last' = last
         ELSE /\ workflows' = workflows
              /\ last' = [Call("new", h) EXCEPT
                             !.ret = "None", !.name = name, !.cbs = cbs, !.outcome = outcome,
                             !.trace = post_error_if(cbs, image_error_message(outcome, text))]
    /\ UNCHANGED <<atoms, disk, dirs, savedFrom, containers>>

(* lines 189-209 *)
new_atom(name, distribution_id, relative_path, date) ==
    Atom_init(name, distribution_id, relative_path, date, None, None, None, FALSE, FALSE, FALSE, FALSE, <<>>, None)

(* os.makedirs(chroot_path, exist_ok=True) *)
makedirs_error_exist_ok(p, dirs_now) == ""

(* os.makedirs(chroot_path), line 206: an existing directory is an error *)
makedirs_error(p, dirs_now) == IF p \in dirs_now THEN "FileExistsError" ELSE ""

(* `relative_path` is the name uuid.uuid4() gives; the exception of         *)
(* makedirs raises out of new                                               *)
new_config(h, relative_path, date) ==
    /\ h \in DOMAIN workflows
    /\ workflows[h].pc = "config"
    /\ LET w == workflows[h]
           err == makedirs_error(get_atom_path(relative_path), dirs)
       IN  IF err = ""
             THEN /\ dirs' = dirs \cup {get_atom_path(relative_path)}
                  /\ workflows' = [workflows EXCEPT
                         ![h].pc = "unpack",
                         ![h].atom = <<new_atom(w.name, w.distribution_id, relative_path, date)>>,
                         ![h].trace = @ \o post_if(w.cbs, "config_fn", 0)
                                        \o <<Effect("makedirs")>>
                                        \o post_if(w.cbs, "config_fn", 1)]
                  /\ last' = last
             ELSE /\ dirs' = dirs
                  /\ workflows' = Remove(workflows, h)
                  /\ last' = [Call("new", h) EXCEPT
                                 !.err = err, !.name = w.name, !.cbs = w.cbs,
                                 !.outcome = "ok", !.path = relative_path,
                                 !.trace = w.trace \o post_if(w.cbs, "config_fn", 0)]
    /\ UNCHANGED <<atoms, disk, savedFrom, containers>>

(* lines 211-219 *)
new_unpack(h) ==
    /\ h \in DOMAIN workflows
    /\ workflows[h].pc = "unpack"
    /\ workflows' = [workflows EXCEPT
           ![h].pc = "finalize",
           ![h].trace = @ \o post_if(workflows[h].cbs, "unpack_fn", 0)
                          \o <<Effect("unpack"), Effect("makedirs_root")>>
                          \o post_if(workflows[h].cbs, "unpack_fn", 1)]
    /\ UNCHANGED <<atoms, disk, dirs, savedFrom, containers, last>>

(* the manifest saved after the last checkpoint is posted *)
new_finalize_trace_save_last(w, saved) ==
    w.trace \o <<Effect("install_servicectl")>>
            \o post_if(w.cbs, "finalizing_fn", 0)
            \o <<Effect("post_unpack")>>
            \o (IF w.distribution_id = "ubuntu" THEN <<Effect("trust_sources")>> ELSE <<>>)
            \o (IF saved THEN post_if(w.cbs, "finalizing_fn", 1) \o <<Effect("save")>> ELSE <<>>)

(* lines 221-245: atom.save() of line 240 raises out of new when it fails *)
new_finalize_trace(w, saved) ==
    w.trace \o <<Effect("install_servicectl")>>
            \o post_if(w.cbs, "finalizing_fn", 0)
            \o <<Effect("post_unpack")>>
            \o (IF w.distribution_id = "ubuntu" THEN <<Effect("trust_sources")>> ELSE <<>>)
            \o (IF saved THEN <<Effect("save")>> \o post_if(w.cbs, "finalizing_fn", 1) ELSE <<>>)

new_finalize(h) ==
    /\ h \in DOMAIN workflows
    /\ workflows[h].pc = "finalize"
    /\ LET w == workflows[h]
           atom == w.atom[1]
           err == save_error(atom, dirs)
       IN  /\ disk' = save_disk(atom, disk, dirs)
           /\ savedFrom' = save_savedFrom(atom, savedFrom, dirs)
           /\ atoms' = IF err = "" THEN Put(atoms, h, atom) ELSE atoms
           /\ last' = [Call("new", h) EXCEPT
                          !.err = err, !.ret = IF err = "" THEN "atom" ELSE "",
                          !.name = w.name, !.cbs = w.cbs, !.outcome = "ok",
                          !.path = atom.relative_path,
                          !.trace = new_finalize_trace(w, err = "")]
    /\ workflows' = Remove(workflows, h)
    /\ UNCHANGED <<dirs, containers>>

(* load_from_container passing the id and the image in each other's place *)
load_from_container_atom_swapped(creation_date, container_name, container_image, container_id, now) ==
    Atom_init(container_name, None, None, creation_date, None, container_image, container_id, FALSE, FALSE, FALSE, FALSE, <<>>, now)

(* Atom.load_from_container, lines 135-150 *)
load_from_container_atom(creation_date, container_name, container_image, container_id, now) ==
    Atom_init(container_name, None, None, creation_date, None, container_id, container_image, FALSE, FALSE, FALSE, FALSE, <<>>, now)

load_from_container(h, creation_date, container_id, now) ==
    /\ Free(h)
    /\ container_id \in DOMAIN containers
    /\ atoms' = Put(atoms, h, load_from_container_atom(creation_date,
                        containers[container_id].name, containers[container_id].image,
                        container_id, now))
    /\ last' = [Call("load_from_container", h) EXCEPT
                   !.ret = "atom", !.name = containers[container_id].name,
                   !.image = containers[container_id].image, !.id = container_id]
    /\ UNCHANGED <<disk, dirs, savedFrom, workflows, containers>>

(* Atom.new_container, lines 247-287.  DistroboxWrapper().new_container     *)
(* returns the id of the container it created, or raises.                   *)
new_container_trace(cbs, created) ==
    post_if(cbs, "distrobox_fn", 0)
    \o (IF created
          THEN post_if(cbs, "distrobox_fn", 1) \o post_if(cbs, "finalizing_fn", 0)
               \o post_if(cbs, "finalizing_fn", 1)
          ELSE post_error_if(cbs, MsgFailToCreateContainer))

new_container(h, name, container_image, cbs, outcome, container_id, date, now) ==
    /\ Free(h)
    /\ IF outcome = "ok"
         THEN /\ container_id \notin DOMAIN containers
              /\ containers' = Put(containers, container_id,
                                   [name |-> name, image |-> container_image, stopped |-> FALSE])
              /\ atoms' = Put(atoms, h, load_from_container_atom(date, name,
                                  container_image, container_id, now))
         ELSE /\ containers' = containers
              /\ atoms' = atoms
    /\ last' = [Call("new_container", h) EXCEPT
                   !.ret = IF outcome = "ok" THEN "atom" ELSE "None",
                   !.name = name, !.image = container_image, !.cbs = cbs,
                   !.outcome = outcome,
                   !.id = IF outcome = "ok" THEN container_id ELSE "",
                   !.trace = new_container_trace(cbs, outcome = "ok")]
    /\ UNCHANGED <<disk, dirs, savedFrom, workflows>>

(* Atom.new_system_shell, lines 289-291 *)
SystemShellName == <<"s", "y", "s", "t", "e", "m", "-", "s", "h", "e", "l", "l">>

new_system_shell_atom(now) ==
    Atom_init(SystemShellName, None, None, None, None, None, None, TRUE, FALSE, FALSE, FALSE, <<>>, now)

new_system_shell(h, now) ==
    /\ Free(h)
    /\ atoms' = Put(atoms, h, new_system_shell_atom(now))
    /\ last' = [Call("new_system_shell", h) EXCEPT !.ret = "atom"]
    /\ UNCHANGED <<disk, dirs, savedFrom, workflows, containers>>

---------------------------------------------------------------------------
(* The program: a caller that creates, loads, changes and saves Atoms.     *)

SomeNames == {<<" ", "a", " ">>, <<"b">>}

NewCallbacks == {"download_fn", "config_fn", "unpack_fn", "finalizing_fn", "error_fn"}
ContainerCallbacks == {"distrobox_fn", "finalizing_fn", "error_fn"}

(* a manifest an earlier run left behind *)
OldManifest ==
    [ name |-> <<"b">>, distributionId |-> "alpine", relativePath |-> "u1.atom",
      creationDate |-> "t1", updateDate |-> "t2", bindThemes |-> TRUE,
      bindIcons |-> FALSE, bindFonts |-> TRUE,
      bindExtraMounts |-> <<<<"/h2", "/g2">>, <<"/h1", "/g1">>>> ]

Init ==
    /\ atoms = EmptyMap
    /\ disk \in {EmptyMap, Put(EmptyMap, "u1.atom", OldManifest)}
    /\ dirs = DOMAIN disk
    /\ savedFrom = EmptyMap
    /\ workflows = EmptyMap
    /\ containers = EmptyMap
    /\ last = Call("init", "")

Next ==
    \E h \in Handles :
        \/ \E name \in SomeNames, distribution_id \in DistributionIds,
              cbs \in {{}, NewCallbacks, NewCallbacks \ {"error_fn"}},
              outcome \in {"ok"} \cup ImageFailures, text \in MisconfiguredTexts :
                new_get_image(h, name, distribution_id, cbs, outcome, text)
        \/ \E relative_path \in RelativePaths, date \in Dates :
                new_config(h, relative_path, date)
        \/ new_unpack(h)
        \/ new_finalize(h)
        \/ \E name \in SomeNames, cbs \in {{}, ContainerCallbacks, ContainerCallbacks \ {"error_fn"}},
              outcome \in {"ok", "AtomsFailToCreateContainer"},
              container_id \in ContainerIds, date \in Dates, now \in Dates :
                new_container(h, name, "img", cbs, outcome, container_id, date, now)
        \/ \E container_id \in ContainerIds, date \in Dates, now \in Dates :
                load_from_container(h, date, container_id, now)
        \/ \E now \in Dates : new_system_shell(h, now)
        \/ \E relative_path \in RelativePaths : load(h, relative_path)
        \/ save(h)
        \/ \E new_name \in SomeNames : rename(h, new_name)
        \/ \E status \in BOOLEAN : set_bind_themes(h, status)
        \/ \E status \in BOOLEAN : set_bind_icons(h, status)
        \/ \E status \in BOOLEAN : set_bind_fonts(h, status)
        \/ destroy(h)
        \/ kill(h)
        \/ stop_distrobox_container(h)
        \/ drop(h)

Spec == Init /\ [][Next]_vars

---------------------------------------------------------------------------
(* Two callers running Atom.new at the same time, and using the Atoms they *)
(* get.                                                                    *)

RaceHandles == {"h1", "h2"}
RacePaths == {"u1.atom", "u2.atom", "u3.atom"}

NextRace ==
    \E h \in RaceHandles :
        \/ new_get_image(h, <<"b">>, "alpine", {}, "ok", <<>>)
        \/ \E relative_path \in RacePaths : new_config(h, relative_path, "t1")
        \/ new_unpack(h)
        \/ new_finalize(h)
        \/ save(h)
        \/ rename(h, <<"a">>)
        \/ \E status \in BOOLEAN : set_bind_themes(h, status)
        \/ \E status \in BOOLEAN : set_bind_icons(h, status)
        \/ \E status \in BOOLEAN : set_bind_fonts(h, status)
        \/ kill(h)
        \/ \E track_exit \in BOOLEAN :
                generate_command(h, <<"ls">>, <<>>, track_exit, "/bin/sh", "/tmp/l1")

SpecRace == Init /\ [][NextRace]_vars

---------------------------------------------------------------------------
(* Loading the manifests an atom directory may hold: every subset of the   *)
(* keys, a JSON null or a string for the string fields, every combination  *)
(* of the flags and every list of extra mounts up to MaxExtraMounts.       *)

Restrict(f, K) == [x \in K |-> f[x]]

FullManifests ==
    [ name : {<<" ", "a", " ">>}, distributionId : {"alpine", None},
      relativePath : {"u1.atom", None}, creationDate : {"t1", None},
      updateDate : {"t2", None}, bindThemes : BOOLEAN, bindIcons : BOOLEAN,
      bindFonts : BOOLEAN, bindExtraMounts : AllExtraMounts ]

AllManifests == {Restrict(m, K) : m \in FullManifests, K \in SUBSET ManifestKeys}

InitLoad ==
    /\ atoms = EmptyMap
    /\ disk \in {EmptyMap} \cup {Put(EmptyMap, "u1.atom", m) : m \in AllManifests}
    /\ dirs = DOMAIN disk
    /\ savedFrom = EmptyMap
    /\ workflows = EmptyMap
    /\ containers = EmptyMap
    /\ last = Call("init", "")

NextLoad ==
    \E h \in Handles :
        \/ \E relative_path \in RelativePaths : load(h, relative_path)
        \/ get_bind_mounts(h)

SpecLoad == InitLoad /\ [][NextLoad]_vars

---------------------------------------------------------------------------
(* Calling the constructor: Atom(instance, name, ...), lines 48-85 *)

construct(h, name, distribution_id, relative_path, creation_date, update_date, container_id, container_image, system_shell, bind_themes, bind_icons, bind_fonts, bind_extra_mounts, now) ==
    /\ Free(h)
    /\ atoms' = Put(atoms, h, Atom_init(name, distribution_id, relative_path,
                        creation_date, update_date, container_id, container_image,
                        system_shell, bind_themes, bind_icons, bind_fonts,
                        bind_extra_mounts, now))
    /\ last' = [Call("Atom", h) EXCEPT !.ret = "atom", !.name = name, !.id = container_id,
                                       !.shell = system_shell, !.path = relative_path]
    /\ UNCHANGED <<disk, dirs, savedFrom, workflows, containers>>

InitAtom ==
    /\ atoms = EmptyMap
    /\ disk = EmptyMap
    /\ dirs = {}
    /\ savedFrom = EmptyMap
    /\ workflows = EmptyMap
    /\ containers = EmptyMap
    /\ last = Call("init", "")

NextAtom ==
    \E h \in {x \in Handles : Free(x)} :
    \E name \in AllNames, distribution_id \in {None, "alpine"},
       relative_path \in {None, "u1.atom"}, creation_date \in {None, "t1"},
       update_date \in {None, "t2"}, container_id \in {None, "", "c1"},
       container_image \in {None, "img"}, system_shell \in BOOLEAN,
       bind_themes \in BOOLEAN, bind_icons \in BOOLEAN, bind_fonts \in BOOLEAN,
       bind_extra_mounts \in {<<>>, <<<<"/h1", "/g1">>>>}, now \in {"t1"} :
         construct(h, name, distribution_id, relative_path, creation_date, update_date,
                   container_id, container_image, system_shell, bind_themes, bind_icons,
                   bind_fonts, bind_extra_mounts, now)

SpecAtom == InitAtom /\ [][NextAtom]_vars

---------------------------------------------------------------------------
(* Command synthesis: generate_command on Atoms of the three backends, for *)
(* several commands, environments, values of $SHELL and launcher scripts   *)

Commands == {<<>>, <<"ls">>, <<"rm", "-rf", "/">>}
Environments == {<<>>, <<"A=1">>, <<"A=1", "B=2">>}
EnvShells == {None, "/bin/bash", "/bin/zsh"}
Scripts == {"/tmp/l1", "/tmp/l2"}

NextCommand ==
    \E h \in Handles :
        \/ \E now \in Dates : new_system_shell(h, now)
        \/ \E relative_path \in {None, "u1.atom"}, container_id \in {None, "", "c1"},
              system_shell \in BOOLEAN, bind_themes \in BOOLEAN,
              bind_extra_mounts \in {<<>>, <<<<"/h1", "/g1">>>>} :
                construct(h, <<"a">>, None, relative_path, "t1", None, container_id, None,
                          system_shell, bind_themes, FALSE, FALSE, bind_extra_mounts, "t2")
        \/ \E command \in Commands, environment \in Environments, track_exit \in BOOLEAN,
              shell \in EnvShells, script \in Scripts :
                generate_command(h, command, environment, track_exit, shell, script)
        \/ drop(h)

SpecCommand == InitAtom /\ [][NextCommand]_vars

---------------------------------------------------------------------------
(* Claims about the constructor, under SpecAtom *)

Constructed(h) == last.op = "Atom" /\ last.h = h /\ h \in DOMAIN atoms

(* C4: an Atom constructed with a non-empty container id reports            *)
(* is_distrobox_container whatever its other fields are; one constructed    *)
(* with the pass-through flag reports is_system_shell even with a           *)
(* container id; and the dispatching operations test the container id      *)
(* first, then the pass-through flag, and else take the chroot branch.      *)
C4_BackendDiscrimination ==
    \A h \in Handles : Constructed(h) =>
        LET a == atoms[h]
        IN  /\ Truthy(last.id) => is_distrobox_container(a)
            /\ last.shell => is_system_shell(a)
            /\ Truthy(last.id) => generate_command_branch(a) = "distrobox"
            /\ last.id = None /\ last.shell => generate_command_branch(a) = "system_shell"
            /\ last.id = None /\ ~last.shell => generate_command_branch(a) = "proot"
            /\ Truthy(last.id) \/ last.shell =>
                   /\ rename_refused(a)
                   /\ save_error(a, dirs) = "NameError"
                   /\ path(a) = ""
            /\ last.id = None /\ ~last.shell => ~rename_refused(a)

C4_Witness ==
    \E h \in Handles :
        /\ Constructed(h)
        /\ Truthy(last.id) /\ last.shell /\ last.path # None
        /\ is_distrobox_container(atoms[h]) /\ is_system_shell(atoms[h])
        /\ generate_command_branch(atoms[h]) = "distrobox"

Trimmed(name) == name = <<>> \/ (~IsSpace(name[1]) /\ ~IsSpace(name[Len(name)]))

(* `stored` is `given` without the spaces around it *)
IsTrimOf(stored, given) ==
    /\ Trimmed(stored)
    /\ \E i \in 1..(Len(given) + 1) :
          /\ i + Len(stored) - 1 <= Len(given)
          /\ stored = SubSeq(given, i, i + Len(stored) - 1)
          /\ \A j \in 1..Len(given) :
                j < i \/ j > i + Len(stored) - 1 => IsSpace(given[j])

(* C8, as claimed: the constructor stores the name without the whitespace   *)
(* around it and rejects a name that is empty after trimming, so that no    *)
(* Atom has an empty name.                                                  *)
C8_EmptyNameRejected ==
    /\ \A h \in DOMAIN atoms : atoms[h].name # <<>>
    /\ last.op = "Atom" =>
          IF strip(last.name) = <<>> THEN last.h \notin DOMAIN atoms
          ELSE Constructed(last.h) /\ IsTrimOf(atoms[last.h].name, last.name)

(* C8, amended: the constructor stores the name without the whitespace      *)
(* around it, and always produces the Atom: a name that is empty after      *)
(* trimming gives an Atom whose name is empty.                              *)
C8_NameStoredTrimmed ==
    last.op = "Atom" =>
        /\ Constructed(last.h)
        /\ IsTrimOf(atoms[last.h].name, last.name)
        /\ (\A i \in 1..Len(last.name) : IsSpace(last.name[i])) => atoms[last.h].name = <<>>

C8_Witness ==
    /\ Constructed(last.h)
    /\ last.name = <<" ", "a", " ">>
    /\ atoms[last.h].name = <<"a">>

---------------------------------------------------------------------------
(* Claims about load and bind_mounts, under SpecLoad *)

Loaded(h) == last.op = "load" /\ last.h = h /\ last.err = "" /\ h \in DOMAIN atoms

FlagCount(a) ==
    (IF a.bind_themes THEN 1 ELSE 0) + (IF a.bind_icons THEN 1 ELSE 0)
        + (IF a.bind_fonts THEN 1 ELSE 0)

Occurs(m, x) == \E i \in 1..Len(m) : m[i] = x

Before(m, x, y) == \A i, j \in 1..Len(m) : m[i] = x /\ m[j] = y => i < j

(* C5: for every combination of the three flags and every list of extra    *)
(* mounts, bind_mounts holds one entry for each flag that is set and none   *)
(* for a flag that is not, themes before icons before fonts, and then the   *)
(* extra mounts in their stored order.                                      *)
C5_BindMountOrder ==
    last.op = "bind_mounts" /\ last.h \in DOMAIN atoms =>
        LET a == atoms[last.h]
            m == last.value
            k == FlagCount(a)
            fixed == SubSeq(m, 1, k)
        IN  /\ Len(m) = k + Len(a.bind_extra_mounts)
            /\ SubSeq(m, k + 1, Len(m)) = a.bind_extra_mounts
            /\ Occurs(fixed, ThemesMount) <=> a.bind_themes
            /\ Occurs(fixed, IconsMount) <=> a.bind_icons
            /\ Occurs(fixed, FontsMount) <=> a.bind_fonts
            /\ Before(fixed, ThemesMount, IconsMount)
            /\ Before(fixed, ThemesMount, FontsMount)
            /\ Before(fixed, IconsMount, FontsMount)

C5_Witness ==
    /\ last.op = "bind_mounts" /\ last.h \in DOMAIN atoms
    /\ atoms[last.h].bind_themes /\ ~atoms[last.h].bind_icons /\ atoms[last.h].bind_fonts
    /\ atoms[last.h].bind_extra_mounts = <<<<"/h2", "/g2">>, <<"/h1", "/g1">>>>
    /\ last.value = <<ThemesMount, FontsMount, <<"/h2", "/g2">>, <<"/h1", "/g1">>>>

(* C6: load raises AtomsConfigFileNotFound when the directory holds no      *)
(* manifest, raises AtomsWrongAtomData and returns no Atom when one of      *)
(* name, distributionId, creationDate, updateDate, relativePath is missing, *)
(* and returns an Atom only when the five are present.                      *)
C6_LoadFailures ==
    last.op = "load" =>
        /\ get_atom_path(last.path) \notin DOMAIN disk =>
              last.err = "AtomsConfigFileNotFound" /\ last.h \notin DOMAIN atoms
        /\ get_atom_path(last.path) \in DOMAIN disk =>
              LET data == disk[get_atom_path(last.path)]
              IN  /\ ~(RequiredKeys \subseteq DOMAIN data) =>
                        last.err = "AtomsWrongAtomData" /\ last.h \notin DOMAIN atoms
                  /\ last.h \in DOMAIN atoms =>
                        last.err = "" /\ RequiredKeys \subseteq DOMAIN data

C6_Witness ==
    /\ last.op = "load" /\ last.err = "AtomsWrongAtomData"
    /\ DOMAIN disk[get_atom_path(last.path)] = ManifestKeys \ {"creationDate"}
    /\ atoms = EmptyMap

---------------------------------------------------------------------------
(* Claims about the program, under Spec *)

NonChroot(a) == is_distrobox_container(a) \/ a.system_shell

PersistedFieldsEqual(a, b) ==
    /\ a.name = b.name
    /\ a.distribution_id = b.distribution_id
    /\ a.relative_path = b.relative_path
    /\ a.creation_date = b.creation_date
    /\ a.update_date = b.update_date
    /\ a.bind_themes = b.bind_themes
    /\ a.bind_icons = b.bind_icons
    /\ a.bind_fonts = b.bind_fonts
    /\ a.bind_extra_mounts = b.bind_extra_mounts

(* C1: an Atom loaded from the directory a Chroot Atom was saved to has     *)
(* the saved Atom's name, distributionId, relativePath, creationDate,       *)
(* updateDate, bind flags and extra mounts.                                 *)
C1_RoundTrip ==
    \A h \in Handles :
        Loaded(h) /\ get_atom_path(last.path) \in DOMAIN savedFrom =>
            PersistedFieldsEqual(atoms[h], savedFrom[get_atom_path(last.path)])

(* C1 for the Atoms whose name is as the constructor leaves it *)
C1_RoundTripOfTrimmedName ==
    \A h \in Handles :
        /\ Loaded(h)
        /\ get_atom_path(last.path) \in DOMAIN savedFrom
        /\ Trimmed(savedFrom[get_atom_path(last.path)].name)
        => PersistedFieldsEqual(atoms[h], savedFrom[get_atom_path(last.path)])

C1_RoundTripOfTrimmedName_Witness ==
    \E h \in Handles :
        /\ Loaded(h)
        /\ get_atom_path(last.path) \in DOMAIN savedFrom
        /\ Trimmed(savedFrom[get_atom_path(last.path)].name)
        /\ atoms[h].bind_icons

(* the step is a completed call of `op` *)
Completes(op) == last' # last /\ last'.op = op

(* C2: save() on a container or pass-through Atom raises the exception of   *)
(* line 308, AtomsCannotSavePodmanContainers, and writes nothing; no        *)
(* manifest is ever found where such an Atom would write it.                *)
C2_SaveRefused ==
    /\ [] ("" \notin DOMAIN disk)
    /\ [][ Completes("save") /\ NonChroot(atoms[last'.h]) =>
              /\ last'.err = "AtomsCannotSavePodmanContainers"
              /\ disk' = disk /\ dirs' = dirs /\ atoms' = atoms ]_vars

(* C3: rename() on a container or pass-through Atom raises the exception of *)
(* line 388, AtomsCannotRenamePodmanContainers, and leaves the Atom and the *)
(* manifests as they were; on a Chroot Atom it sets the name to the new     *)
(* name and writes the manifest again.                                      *)
C3_Rename ==
    [][ Completes("rename") =>
          LET h == last'.h
          IN  IF NonChroot(atoms[h])
                THEN /\ last'.err = "AtomsCannotRenamePodmanContainers"
                     /\ atoms' = atoms /\ disk' = disk
                ELSE /\ last'.err = ""
                     /\ atoms'[h] = [atoms[h] EXCEPT !.name = last'.name]
                     /\ disk'[path(atoms[h])] = to_dict(atoms'[h]) ]_vars

(* C7: when get_image raises one of the four failures, new returns None,    *)
(* makes no directory, writes no manifest, posts no progress callback, and  *)
(* posts one message to error_fn if there is one (with "temporary problem"  *)
(* in it for AtomsUnreachableRemote) and nothing otherwise.                 *)
C7_ImageFailure ==
    [][ Completes("new") /\ last'.outcome \in ImageFailures =>
          /\ last'.ret = "None" /\ last'.err = ""
          /\ atoms' = atoms /\ workflows' = workflows
          /\ dirs' = dirs /\ disk' = disk
          /\ \A i \in 1..Len(last'.trace) : last'.trace[i].fn = "error_fn"
          /\ IF "error_fn" \in last'.cbs
               THEN /\ Len(last'.trace) = 1
                    /\ last'.trace[1].message # <<>>
                    /\ last'.outcome = "AtomsUnreachableRemote" =>
                           Contains(last'.trace[1].message, <<"temporary", "problem">>)
               ELSE last'.trace = <<>> ]_vars

C7_Witness ==
    /\ last.op = "new" /\ last.outcome = "AtomsUnreachableRemote"
    /\ last.cbs = NewCallbacks /\ last.ret = "None"
    /\ Len(last.trace) = 1
    /\ Contains(last.trace[1].message, <<"temporary", "problem">>)
    /\ dirs = {} /\ disk = EmptyMap /\ atoms = EmptyMap

(* what C9 says of a call of new_container, but for the Atom's name *)
NewContainerOutcome ==
    LET h == last'.h
        t == last'.trace
    IN  IF last'.outcome = "ok"
          THEN /\ last'.ret = "atom" /\ h \in DOMAIN atoms'
               /\ is_distrobox_container(atoms'[h])
               /\ generate_command_branch(atoms'[h]) = "distrobox"
               /\ last'.id \in DOMAIN containers' \ DOMAIN containers
               /\ atoms'[h].container_id = last'.id
               /\ atoms'[h].container_image = last'.image
               /\ atoms'[h].relative_path = None
               /\ disk' = disk /\ dirs' = dirs
          ELSE /\ last'.ret = "None" /\ atoms' = atoms
               /\ "error_fn" \in last'.cbs => Occurs(t, PostedError(MsgFailToCreateContainer))
               /\ ~Occurs(t, Posted("distrobox_fn", 1))
               /\ \A i \in 1..Len(t) : t[i].fn # "finalizing_fn"
               /\ disk' = disk /\ dirs' = dirs

(* C9, as claimed: a failed new_container reports through error_fn, returns *)
(* None and posts neither (distrobox_fn, 1) nor a finalizing checkpoint; a  *)
(* successful one returns a container Atom with the id the runtime          *)
(* returned, the requested image and the requested name, no relative path,  *)
(* and no manifest written.                                                 *)
C9_NameAsRequested ==
    [][ Completes("new_container") =>
          /\ NewContainerOutcome
          /\ last'.outcome = "ok" => atoms'[last'.h].name = last'.name ]_vars

(* C9, amended: the same, the Atom's name being the requested name without  *)
(* the whitespace around it.                                                *)
C9_NameAsRequestedTrimmed ==
    [][ Completes("new_container") =>
          /\ NewContainerOutcome
          /\ last'.outcome = "ok" => IsTrimOf(atoms'[last'.h].name, last'.name) ]_vars

C9_Witness ==
    /\ last.op = "new_container" /\ last.outcome = "ok"
    /\ last.name = <<" ", "a", " ">>
    /\ last.h \in DOMAIN atoms
    /\ atoms[last.h].name = <<"a">>
    /\ atoms[last.h].container_id = last.id
    /\ last.id \in DOMAIN containers

(* the callbacks a call posted to the main context, in order *)
IsPosted(e) == e.fn \in Callbacks

Posts(t) == SelectSeq(t, IsPosted)

Index(t, x) == CHOOSE i \in 1..Len(t) : t[i] = x

(* C11: a successful new with all callbacks posts (config_fn, 0),           *)
(* (config_fn, 1), (unpack_fn, 0), (unpack_fn, 1), (finalizing_fn, 0),      *)
(* (finalizing_fn, 1) in this order and nothing else; the directory is made *)
(* between the two config posts, the image is unpacked between the two      *)
(* unpack posts, and the manifest is saved after (finalizing_fn, 0), before *)
(* (finalizing_fn, 1) and before the Atom is returned.                      *)
C11_CheckpointOrder ==
    [][ Completes("new") /\ last'.ret = "atom" /\ last'.cbs = NewCallbacks =>
          LET t == last'.trace
              h == last'.h
          IN  /\ Posts(t) = << Posted("config_fn", 0), Posted("config_fn", 1),
                               Posted("unpack_fn", 0), Posted("unpack_fn", 1),
                               Posted("finalizing_fn", 0), Posted("finalizing_fn", 1) >>
              /\ Occurs(t, Effect("makedirs")) /\ Occurs(t, Effect("unpack"))
              /\ Occurs(t, Effect("save"))
              /\ Index(t, Posted("config_fn", 0)) < Index(t, Effect("makedirs"))
              /\ Index(t, Effect("makedirs")) < Index(t, Posted("config_fn", 1))
              /\ Index(t, Posted("unpack_fn", 0)) < Index(t, Effect("unpack"))
              /\ Index(t, Effect("unpack")) < Index(t, Posted("unpack_fn", 1))
              /\ Index(t, Posted("finalizing_fn", 0)) < Index(t, Effect("save"))
              /\ Index(t, Effect("save")) < Index(t, Posted("finalizing_fn", 1))
              /\ \A i, j \in 1..Len(t) : t[i] = t[j] /\ IsPosted(t[i]) => i = j
              /\ h \in DOMAIN atoms' /\ h \notin DOMAIN atoms
              /\ path(atoms'[h]) \in DOMAIN disk'
              /\ disk'[path(atoms'[h])] = to_dict(atoms'[h]) ]_vars

C11_Witness ==
    /\ last.op = "new" /\ last.ret = "atom" /\ last.cbs = NewCallbacks
    /\ Len(Posts(last.trace)) = 6
    /\ Occurs(last.trace, Effect("trust_sources"))
    /\ last.h \in DOMAIN atoms /\ path(atoms[last.h]) \in DOMAIN disk

SetterOps == {"set_bind_themes", "set_bind_icons", "set_bind_fonts"}

BindFlags(a) == <<a.bind_themes, a.bind_icons, a.bind_fonts>>

(* C12: set_bind_themes, set_bind_icons and set_bind_fonts on a container   *)
(* or pass-through Atom fail and leave its three bind flags as they were.   *)
C12_SettersRefused ==
    [][ last' # last /\ last'.op \in SetterOps /\ NonChroot(atoms[last'.h]) =>
          /\ last'.err # ""
          /\ BindFlags(atoms'[last'.h]) = BindFlags(atoms[last'.h]) ]_vars

FieldOf(op) ==
    CASE op = "set_bind_themes" -> "bindThemes"
      [] op = "set_bind_icons"  -> "bindIcons"
      [] op = "set_bind_fonts"  -> "bindFonts"
      [] op = "rename"          -> "name"

(* f and g are the same manifest, but for the value of `key` *)
SameBut(f, g, key) ==
    /\ DOMAIN f = DOMAIN g
    /\ \A k \in DOMAIN f \ {key} : f[k] = g[k]

(* C13: after a completed set_bind_themes, set_bind_icons, set_bind_fonts   *)
(* or rename on a Chroot Atom the manifest on disk is the Atom's to_dict(), *)
(* and a setter changes only its own field, in the Atom and in the          *)
(* manifest: the name, the other flags, the extra mounts, the relative      *)
(* path, the distribution and the dates are as they were.                   *)
C13_SetterFrame ==
    [][ /\ last' # last /\ last'.op \in SetterOps \cup {"rename"} /\ last'.err = ""
        /\ ~NonChroot(atoms[last'.h])
        =>
          LET h == last'.h
              p == path(atoms[h])
          IN  /\ p \in DOMAIN disk' /\ disk'[p] = to_dict(atoms'[h])
              /\ SameBut(to_dict(atoms'[h]), to_dict(atoms[h]), FieldOf(last'.op))
              /\ atoms'[h].container_id = atoms[h].container_id
              /\ atoms'[h].system_shell = atoms[h].system_shell
              /\ p \in DOMAIN disk => SameBut(disk'[p], disk[p], FieldOf(last'.op))
              /\ \A q \in DOMAIN disk \ {p} : q \in DOMAIN disk' /\ disk'[q] = disk[q] ]_vars

(* C14: destroy() on a container Atom and on a pass-through Atom asks the   *)
(* container runtime to remove the container and touches no directory, and  *)
(* kill() on either asks the runtime to stop it; destroy() on a Chroot Atom *)
(* removes the Atom's directory tree and asks the runtime nothing.          *)
C14_TeardownDispatch ==
    [][ /\ Completes("destroy") =>
              LET a == atoms[last'.h]
              IN  IF NonChroot(a)
                    THEN /\ last'.err = ""
                         /\ last'.trace = <<Request("destroy_container", a.container_id)>>
                         /\ a.container_id \notin DOMAIN containers'
                         /\ disk' = disk /\ dirs' = dirs
                    ELSE /\ last'.err = ""
                         /\ path(a) \notin dirs' /\ path(a) \notin DOMAIN disk'
                         /\ last'.trace = <<Effect("native_rm")>>
                         /\ containers' = containers
        /\ Completes("kill") /\ NonChroot(atoms[last'.h]) =>
              /\ last'.err = ""
              /\ last'.trace = <<Request("stop_container", atoms[last'.h].container_id)>>
              /\ disk' = disk /\ dirs' = dirs ]_vars

(* C16: no Atom that new, new_container, new_system_shell, load or          *)
(* load_from_container returned has both a container id and a relative      *)
(* path, whatever operations followed; the pass-through Atom has neither.   *)
C16_OneIdentity ==
    \A h \in DOMAIN atoms :
        /\ ~(atoms[h].container_id # None /\ atoms[h].relative_path # None)
        /\ atoms[h].system_shell =>
               atoms[h].container_id = None /\ atoms[h].relative_path = None

C16_Witness ==
    \E h \in DOMAIN atoms :
        /\ last.op = "set_bind_icons" /\ last.h = h /\ last.err = ""
        /\ atoms[h].relative_path = "u1.atom" /\ atoms[h].container_id = None
        /\ atoms[h].creation_date = atoms[h].update_date
        /\ atoms[h].name = <<"a">>

(* C18: the name of every Atom, and the name in every manifest, has no      *)
(* whitespace around it: after construction, after load, and after rename   *)
(* with any new name.                                                       *)
C18_NameTrimmed ==
    /\ \A h \in DOMAIN atoms : Trimmed(atoms[h].name)
    /\ \A p \in DOMAIN disk : Trimmed(disk[p]["name"])

(* the step leaves the dates of the Atoms and of the manifests as they are *)
DatesKept ==
    /\ \A h \in DOMAIN atoms \cap DOMAIN atoms' :
          /\ atoms'[h].creation_date = atoms[h].creation_date
          /\ atoms'[h].update_date = atoms[h].update_date
    /\ \A p \in DOMAIN disk \cap DOMAIN disk' :
          /\ disk'[p]["creationDate"] = disk[p]["creationDate"]
          /\ disk'[p]["updateDate"] = disk[p]["updateDate"]

(* C19: no operation changes the creation date or the update date of an     *)
(* Atom or of its manifest; new returns a Chroot Atom whose update date is  *)
(* its creation date, in the Atom and in the manifest it wrote, and load    *)
(* returns the dates the manifest holds: so the two dates of such an Atom   *)
(* stay equal over rename, the setters, save and load.                      *)
C19_DatesKept ==
    [][ /\ DatesKept
        /\ Completes("new") /\ last'.ret = "atom" =>
              LET a == atoms'[last'.h]
              IN  /\ a.update_date = a.creation_date /\ a.creation_date # None
                  /\ disk'[path(a)]["updateDate"] = a.creation_date
                  /\ disk'[path(a)]["creationDate"] = a.creation_date
        /\ Completes("load") /\ last'.err = "" =>
              LET a == atoms'[last'.h]
              IN  /\ a.creation_date = disk[get_atom_path(last'.path)]["creationDate"]
                  /\ a.update_date = disk[get_atom_path(last'.path)]["updateDate"] ]_vars

C19_Witness ==
    \E h \in DOMAIN atoms :
        /\ last.op = "load" /\ last.h = h /\ last.err = ""
        /\ atoms[h].update_date = "t2" /\ atoms[h].creation_date = "t2"
        /\ atoms[h].name = <<"a">> /\ atoms[h].bind_fonts
        /\ disk[path(atoms[h])]["updateDate"] = "t2"
        /\ savedFrom[path(atoms[h])].bind_fonts

---------------------------------------------------------------------------
(* Claims about command synthesis, under SpecCommand *)

PassThroughShell(a) == a.system_shell /\ ~is_distrobox_container(a)

(* C17: on a pass-through Atom generate_command ignores the command and     *)
(* the environment it is given: the wrapped command is $SHELL alone, the    *)
(* environment is empty and the working directory is "/", and a call with   *)
(* any other command and environment, the same track_exit and the same      *)
(* host environment gives the same result.                                  *)
C17_PassThroughIgnoresInputs ==
    last.op = "generate_command" /\ last.h \in DOMAIN atoms /\ PassThroughShell(atoms[last.h]) =>
        /\ last.env_shell # None =>
              /\ last.err = ""
              /\ last.out_command =
                     (IF last.track_exit THEN <<"sh", last.script>> ELSE <<>>) \o <<last.env_shell>>
              /\ last.out_environment = <<>>
              /\ last.working_directory = "/"
        /\ \A command \in Commands, environment \in Environments :
              LET other == generate_command_result(atoms[last.h], command, environment,
                                                   last.track_exit, last.env_shell, last.script)
              IN  /\ other.err = last.err
                  /\ other.command = last.out_command
                  /\ other.environment = last.out_environment
                  /\ other.working_directory = last.working_directory

C17_Witness ==
    /\ last.op = "generate_command" /\ last.h \in DOMAIN atoms
    /\ PassThroughShell(atoms[last.h])
    /\ atoms[last.h].name = SystemShellName
    /\ last.command = <<"rm", "-rf", "/">> /\ last.environment = <<"A=1">>
    /\ last.track_exit /\ last.env_shell = "/bin/zsh"
    /\ last.out_command = <<"sh", "/tmp/l2", "/bin/zsh">>
    /\ last.out_environment = <<>> /\ last.working_directory = "/"

---------------------------------------------------------------------------
(* Claims about concurrent creations, under SpecRace *)

(* the handles of the Atoms that exist: returned, or built by a running new *)
Owners == DOMAIN atoms \cup {h \in DOMAIN workflows : workflows[h].atom # <<>>}

AtomOf(h) == IF h \in DOMAIN atoms THEN atoms[h] ELSE workflows[h].atom[1]

(* the manifests and directories a step writes or makes *)
Written == {p \in DOMAIN disk' : p \notin DOMAIN disk \/ disk'[p] # disk[p]}

Made == dirs' \ dirs

(* C15: however the calls of new interleave, each gets a relative path no   *)
(* other Atom and no existing directory has, so that no two Chroot Atoms    *)
(* share a directory and no call writes into the directory or the manifest  *)
(* of another; and save, rename, the setters, generate_command and kill     *)
(* leave an Atom's relative path as it is.                                  *)
C15_FreshRelativePath ==
    /\ [] (\A g, h \in Owners :
              g # h => AtomOf(g).relative_path # AtomOf(h).relative_path)
    /\ [][ /\ \A h \in Owners' \ Owners :
                   /\ get_atom_path(AtomOf(h)'.relative_path) \notin dirs
                   /\ Made = {get_atom_path(AtomOf(h)'.relative_path)}
           /\ \A p \in Written \cup Made :
                 \E h \in Owners' :
                     /\ p = path(AtomOf(h)')
                     /\ h \in Owners => last' # last /\ last'.h = h
                     /\ \A g \in Owners' \ {h} : p # path(AtomOf(g)')
           /\ \A h \in Owners \cap Owners' :
                 AtomOf(h)'.relative_path = AtomOf(h).relative_path ]_vars

C15_Witness ==
    /\ DOMAIN atoms = RaceHandles
    /\ atoms["h1"].relative_path # atoms["h2"].relative_path
    /\ \A h \in RaceHandles : path(atoms[h]) \in DOMAIN disk
    /\ atoms["h1"].bind_themes /\ atoms["h2"].name = <<"a">>
    /\ disk[path(atoms["h2"])]["name"] = <<"a">>

===========================================================================
